---- MODULE Spec2Model ----
(***************************************************************************)
(* ollama-bench: the three CLI commands of ollama_bench/cli.py             *)
(* (list-models, generate, benchmark) as one state machine.                *)
(*                                                                         *)
(* The main coroutine `_main` of the running command is followed by `pc`.  *)
(* In the benchmark command the per-item coroutines                        *)
(* run_for_model_and_prompt / sem_task are followed by `task` and `call`,  *)
(* one entry per work item of tasks_to_run.  A step of the model is what   *)
(* the event loop runs between two suspension points.                      *)
(*                                                                         *)
(* The backend (ollama.AsyncClient behind OllamaClient) is the             *)
(* environment: list_models returns a listing or raises, a generate call   *)
(* returns a response, raises an exception, or is still pending when the   *)
(* timeout of asyncio.wait_for elapses.  A pending call that wait_for      *)
(* cancels stops with CancelledError at its suspension point (the          *)
(* behaviour of a coroutine suspended in network I/O).  Failures are       *)
(* subclasses of Exception, as the handlers of cli.py catch them.          *)
(***************************************************************************)
EXTENDS Integers, Sequences, FiniteSets, TLC

\* ------------------------------------------------------------------ bounds
MaxModels == 2      \* longest backend listing
MaxPrompts == 3     \* most lines of a prompts file
MaxRequested == 2   \* most -m options
MaxConc == 2        \* largest -c value
MaxItems == 4       \* most work items of a sequential run
MaxConcItems == 3   \* most work items of a run with -c > 1

\* ------------------------------------------------------- values of the run
Names == {"a", "b"}                 \* model names the backend may list
RequestNames == {"a", "b", "z"}     \* names -m may ask for; "z" is never listed

None == "None"

DEFAULT_PROMPT == "Briefly explain plate tectonics"

\* sequences over S of length at most n
SeqsUpTo(S, n) == UNION {[1..k -> S] : k \in 0..n}

Range(s) == {s[k] : k \in 1..Len(s)}

\* [x for x in s if Keep(x)], order kept
RECURSIVE Filter(_, _)
Filter(s, keep) ==
    IF s = <<>> THEN <<>>
    ELSE IF Head(s) \in keep THEN <<Head(s)>> \o Filter(Tail(s), keep)
         ELSE Filter(Tail(s), keep)

RECURSIVE FilterOut(_, _)
FilterOut(s, drop) ==
    IF s = <<>> THEN <<>>
    ELSE IF Head(s) \in drop THEN FilterOut(Tail(s), drop)
         ELSE <<Head(s)>> \o FilterOut(Tail(s), drop)

\* number of positions of s holding x
Count(s, x) == Cardinality({k \in 1..Len(s) : s[k] = x})

IsPermutationOf(s, t) ==
    /\ Len(s) = Len(t)
    /\ \A k \in 1..Len(s) : Count(s, s[k]) = Count(t, s[k])

\* ---------------------------------------------------------------- models.py
\* A Model; the scheduler reads only its name.
Model(n) == [name |-> n]

\* An optional str: <<>> for None or a missing key, <<s>> for the str s.
\* Items of a backend listing, as Model.from_dict tells them apart:
StrItem(s) == [kind |-> "str", value |-> s]
DictItem(name, model_, id) ==
    [name |-> name, kind |-> "dict", id |-> id, model |-> model_]
\* an object that is neither str nor dict, with its name and model attributes
ObjectItem(name, model_) == [name |-> name, kind |-> "object", model |-> model_]

\* str(data) of a dict or of an object without a usable attribute
Repr(data) == IF data.kind = "dict" THEN "{...}" ELSE "<object>"

\* truthiness of an optional str
TruthyStr(v) == v # <<>> /\ v[1] # ""

\* a or b or ... or default
RECURSIVE FirstTruthy(_, _)
FirstTruthy(vs, default) ==
    IF vs = <<>> THEN default
    ELSE IF TruthyStr(Head(vs)) THEN Head(vs)[1]
         ELSE FirstTruthy(Tail(vs), default)

\* models.py 38-73: the name Model.from_dict gives the Model of `data`
FromDict(data) ==
    CASE data.kind = "str" -> Model(data.value)
      [] data.kind = "dict" ->
            Model(FirstTruthy(<<data.name, data.model, data.id>>, Repr(data)))
      [] data.kind = "object" ->
            Model(FirstTruthy(<<data.name, data.model>>, Repr(data)))
      [] OTHER -> Model("None")

\* ---------------------------------------------------------------- client.py
\* What AsyncClient.list() returns, and what a stream of it yields: an item,
\* None, a list of items, or a mapping with a "models" list.
NonePart == [kind |-> "none"]
ListOf(items) == [kind |-> "list", items |-> items]
Wrapper(items) == [kind |-> "wrapper", models |-> items]
Stream(parts) == [kind |-> "stream", parts |-> parts]

\* mutant: an object that is no list is put in front of the items
ExtendFromInFront(items, obj) ==
    CASE obj.kind = "none" -> items
      [] obj.kind = "wrapper" -> items \o obj.models
      [] obj.kind = "list" -> items \o obj.items
      [] OTHER -> <<obj>> \o items

\* client.py 58-87: extend_from(obj), on the items gathered so far
ExtendFrom(items, obj) ==
    CASE obj.kind = "none" -> items
      [] obj.kind = "wrapper" -> items \o obj.models
      [] obj.kind = "list" -> items \o obj.items
      [] OTHER -> Append(items, obj)

\* client.py 90-98: the parts of a stream, each through extend_from
RECURSIVE ExtendFromParts(_, _)
ExtendFromParts(items, parts) ==
    IF parts = <<>> THEN items
    ELSE ExtendFromParts(ExtendFrom(items, Head(parts)), Tail(parts))

\* client.py 56-109: the items list_models gathers from `raw`
GatheredItems(raw_) ==
    IF raw_.kind = "stream" THEN ExtendFromParts(<<>>, raw_.parts)
    ELSE ExtendFrom(<<>>, raw_)

\* client.py 110-112
ListModels(raw_) ==
    LET items == GatheredItems(raw_) IN
    [k \in 1..Len(items) |-> FromDict(items[k])]

\* ------------------------------------------------------- prompt resolution
\* Lines of a prompts file and what str.strip() makes of them.
FileLines == {"", "  ", "p", " q "}

Strip(line) ==
    CASE line = "" -> ""
      [] line = "  " -> ""
      [] line = "p" -> "p"
      [] line = " q " -> "q"
      [] OTHER -> line

\* truthiness of a str
Truthy(s) == s # None /\ s # ""

RECURSIVE StripLines(_)
StripLines(lines) ==
    IF lines = <<>> THEN <<>>
    ELSE IF Truthy(Strip(Head(lines)))
         THEN <<Strip(Head(lines))>> \o StripLines(Tail(lines))
         ELSE StripLines(Tail(lines))

\* --prompts-file: not given, or the lines of the file it names
NoFile == [given |-> FALSE, lines |-> <<>>]
File(lines) == [given |-> TRUE, lines |-> lines]

\* mutant: --prompt takes precedence over --prompts-file
ResolvePromptsTextFirst(file, text) ==
    IF Truthy(text) THEN <<text>>
    ELSE IF file.given THEN StripLines(file.lines)
    ELSE <<DEFAULT_PROMPT>>

\* cli.py 132-141
ResolvePrompts(file, text) ==
    IF file.given THEN StripLines(file.lines)
    ELSE IF Truthy(text) THEN <<text>>
    ELSE <<DEFAULT_PROMPT>>

\* ------------------------------------------------------------ the backend
\* What a generate call can return: a mapping with the usage counters, or a
\* value that has no .get (None).
NotAMapping == [type |-> "NoneType"]
HasGet(v) == "type" \notin DOMAIN v

Responses ==
    { [prompt_eval_count |-> 100, prompt_eval_duration |-> 1000000000,
       eval_count |-> 50, eval_duration |-> 0],
      NotAMapping }

\* A mapping without keys.
EmptyMapping == [k \in {} |-> 0]

\* An optional number: <<>> for None, <<n>> for the number n.
Field(key, opt) == IF opt = <<>> THEN EmptyMapping ELSE key :> opt[1]

\* a response holding the counters given, the others missing
Response(pc_, pd, ec, ed) ==
    Field("prompt_eval_count", pc_) @@ Field("prompt_eval_duration", pd)
        @@ Field("eval_count", ec) @@ Field("eval_duration", ed)

CountOptions == {<<>>, <<0>>, <<100>>}
DurationOptions == {<<>>, <<0>>, <<1000000000>>, <<300000000>>}

\* Responses whose counters of one kind take every combination of missing,
\* zero and positive, the counters of the other kind being those of the
\* response of Responses.
WideResponses ==
    {Response(c, d, <<50>>, <<0>>) : c \in CountOptions, d \in DurationOptions}
    \cup
    {Response(<<100>>, <<1000000000>>, c, d) :
        c \in CountOptions, d \in DurationOptions}

\* What a generate call can raise: [kind, desc], desc being str(exc).
Failures ==
    { [kind |-> "ResponseError", desc |-> "model not found"],
      [kind |-> "TimeoutError", desc |-> "connect timed out"] }

NoExc == [kind |-> "none", desc |-> ""]

\* the exception asyncio.wait_for raises once it has cancelled the call
WaitForTimeout == [kind |-> "TimeoutError", desc |-> ""]

\* dict.get(key, default)
Get(d, key, default) == IF key \in DOMAIN d THEN d[key] ELSE default

\* resp.get(key) of a counter: <<>> for None, <<n>> for the number n
GetNumber(d, key) == IF key \in DOMAIN d THEN <<d[key]>> ELSE <<>>

\* truthiness of resp.get(key): neither None nor 0
TruthyNumber(v) == v # <<>> /\ v[1] # 0

RECURSIVE GCD(_, _)
GCD(a, b) == IF b = 0 THEN a ELSE GCD(b, a % b)

NS_PER_SEC == 1000000000

\* count / duration * (10**9), as the fraction num/den in lowest terms
Rate(count, duration) ==
    LET g == GCD(duration, NS_PER_SEC)
        n == count * (NS_PER_SEC \div g)
        d == duration \div g
        h == GCD(n, d)
    IN [num |-> n \div h, den |-> d \div h]

\* ------------------------------------------------------------------ state
VARIABLES
    command,          \* the CLI command that runs
    model,            \* benchmark: the -m options, a tuple of names
    prompts_file,     \* benchmark: --prompts-file
    prompt_text,      \* benchmark: --prompt
    concurrency,      \* benchmark: -c
    timeout,          \* benchmark: -t, seconds
    output_format,    \* benchmark: -f
    pc,               \* where _main of the command is
    prompts,          \* benchmark: the resolved prompts
    raw,              \* list_models: what AsyncClient.list() returned
    model_names,      \* _main: names of the listing, in listing order
    all_models,       \* _main: the list list_models returned
    selected_models,  \* _main
    unknown,          \* _main: the names of the warning, <<>> when none is logged
    tasks_to_run,     \* _main: the (model, prompt) work items
    task,             \* per work item: where its coroutine is
    call,             \* per work item: its client.generate call
    ret,              \* per work item: what run_for_model_and_prompt returned
    sem_value,        \* sem._value
    waiters,          \* sem._waiters, the items whose acquire() is suspended
    done_queue,       \* as_completed: finished tasks not yet handed to the loop
    results,          \* _main
    now,              \* loop.time(), in seconds since the process started
    start,            \* per work item: start of run_for_model_and_prompt
    elapsed,          \* per work item: the elapsed of its result
    output_str,       \* _main: the formatted report
    written,          \* what reached the output file or stdout
    caught,           \* the exception the except clause of _main handles
    exit_code,        \* -1 while the process runs
    closes            \* how client.close() went, one entry per invocation

inputs == <<command, model, prompts_file, prompt_text, concurrency, timeout,
            output_format>>
selection == <<raw, model_names, all_models, selected_models, unknown>>
scheduler == <<tasks_to_run, task, call, ret, sem_value, waiters, done_queue,
               results, start, elapsed>>
ending == <<output_str, written, caught, exit_code, closes>>
vars == <<inputs, now, pc, prompts, selection, scheduler, ending>>

Commands == {"benchmark", "list-models", "generate"}
Formats == {"json", "text"}
Timeouts == {30}

NoOutput == [kind |-> "none"]
NoResult == [status |-> "none"]
NoRaw == [kind |-> "unset"]

N == Len(tasks_to_run)
Items == 1..N

\* client.generate calls issued and not completed
InFlight == {i \in Items : call[i].st \in {"pending", "cancelling"}}

\* ------------------------------------------------------------------- Init
\* The command lines of the model.  A benchmark command line is one of
\*  - a scheduling run: no -m, the prompts from a file of up to MaxPrompts
\*    lines or the default prompt, -c 1 or more, JSON output;
\*  - a selection run: some -m options, the default prompt, any -c, both
\*    formats.
CommandLine(cmd, m, file, text, c, t, fmt) ==
    [command |-> cmd, model |-> m, prompts_file |-> file, prompt_text |-> text,
     concurrency |-> c, timeout |-> t, output_format |-> fmt]

\* a prompts file of n lines: p, q, p, ...
FileOfLength(n) == File([k \in 1..n |-> IF k % 2 = 1 THEN "p" ELSE " q "])

SchedulingRuns ==
    {CommandLine("benchmark", <<>>, file, None, c, t, "json") :
        file \in {NoFile} \cup {FileOfLength(n) : n \in 0..MaxPrompts},
        c \in 1..MaxConc, t \in Timeouts}

SelectionRuns ==
    {CommandLine("benchmark", m, NoFile, None, c, t, fmt) :
        m \in SeqsUpTo(RequestNames, MaxRequested) \ {<<>>},
        c \in 0..MaxConc, t \in Timeouts, fmt \in Formats}

OtherCommands ==
    {CommandLine(cmd, <<>>, NoFile, None, 1, t, "json") :
        cmd \in {"list-models", "generate"}, t \in Timeouts}

CommandLines == SchedulingRuns \cup SelectionRuns \cup OtherCommands

\* The process has parsed one of the command lines cls and _main has built
\* the client.
InitOf(cls) ==
    /\ \E cl \in cls :
          /\ command = cl.command
          /\ model = cl.model
          /\ prompts_file = cl.prompts_file
          /\ prompt_text = cl.prompt_text
          /\ concurrency = cl.concurrency
          /\ timeout = cl.timeout
          /\ output_format = cl.output_format
    /\ pc = "start"
    /\ prompts = <<>>
    /\ raw = NoRaw
    /\ model_names = <<>>
    /\ all_models = <<>>
    /\ selected_models = <<>>
    /\ unknown = <<>>
    /\ tasks_to_run = <<>>
    /\ task = <<>>
    /\ call = <<>>
    /\ ret = <<>>
    /\ sem_value = 0
    /\ waiters = <<>>
    /\ done_queue = <<>>
    /\ results = <<>>
    /\ now = 0
    /\ start = <<>>
    /\ elapsed = <<>>
    /\ output_str = NoOutput
    /\ written = NoOutput
    /\ caught = NoExc
    /\ exit_code = -1
    /\ closes = <<>>

Init == InitOf(CommandLines)

\* ------------------------------------------------- benchmark: preparation
\* cli.py 132-141, then _main starts and awaits client.list_models()
BuildPrompts ==
    /\ pc = "start"
    /\ command = "benchmark"
    /\ prompts' = ResolvePrompts(prompts_file, prompt_text)
    /\ pc' = "list"
    /\ UNCHANGED <<inputs, now, selection, scheduler, ending>>

\* list-models: _main starts and awaits client.list_models()
ListModelsStart ==
    /\ pc = "start"
    /\ command = "list-models"
    /\ pc' = "list"
    /\ UNCHANGED <<inputs, now, prompts, selection, scheduler, ending>>

\* the size of the runs explored
ItemBound == IF concurrency <= 1 THEN MaxItems ELSE MaxConcItems

\* AsyncClient.list() returns raw_ and client.list_models() the Models made
\* of it (cli.py 74 and 146-147), in a run of up to `bound` work items
ListReturnsUpTo(raw_, bound) ==
    /\ pc = "list"
    /\ LET models == ListModels(raw_) IN
       /\ Len(models) * Len(prompts) <= bound
       /\ all_models' = models
       /\ model_names' = [k \in 1..Len(models) |-> models[k].name]
    /\ raw' = raw_
    /\ pc' = IF command = "benchmark" THEN "select" ELSE "print"
    /\ UNCHANGED <<inputs, now, prompts, selected_models, unknown, scheduler, ending>>

ListReturns(raw_) == ListReturnsUpTo(raw_, ItemBound)

\* client.list_models() raises (cli.py 78 and 274)
ListRaises ==
    /\ pc = "list"
    /\ caught' = [kind |-> "ConnectionError", desc |-> "list_models failed"]
    /\ pc' = "except"
    /\ UNCHANGED <<inputs, now, prompts, selection, scheduler,
                   output_str, written, exit_code, closes>>

\* mutant: the -m options do not filter
SelectedAll(models, requested) == models

\* [m for m in all_models if m.name in model]
SelectedByName(models, requested) ==
    Filter(models, {Model(n) : n \in Range(requested)})

\* [item for item in model if item not in model_names]
UnknownNames(requested, names) == FilterOut(requested, Range(names))

\* mutant: an empty selection is not checked for
NoneSelectedIgnored(sel) == FALSE

\* cli.py 150: `if not selected_models`
NoneSelected(sel) == sel = <<>>

\* cli.py 148-156
SelectModels ==
    /\ pc = "select"
    /\ IF model # <<>>
       THEN LET sel == SelectedByName(all_models, model) IN
            IF NoneSelected(sel)
            THEN /\ caught' = [kind |-> "ValueError",
                               desc |-> "No matching models found"]
                 /\ pc' = "except"
                 /\ UNCHANGED <<selected_models, unknown>>
            ELSE /\ selected_models' = sel
                 /\ unknown' = UnknownNames(model, model_names)
                 /\ pc' = "shuffle"
                 /\ UNCHANGED caught
       ELSE /\ selected_models' = all_models
            /\ pc' = "shuffle"
            /\ UNCHANGED <<unknown, caught>>
    /\ UNCHANGED <<inputs, now, prompts, raw, model_names, all_models, scheduler,
                   output_str, written, exit_code, closes>>

Rearrangements(n) ==
    {f \in [1..n -> 1..n] : \A a, b \in 1..n : f[a] = f[b] => a = b}

\* random.shuffle(x): x rearranged by some permutation
Shuffled(x, f) == [k \in 1..Len(x) |-> x[f[k]]]

\* cli.py 159; without -m, selected_models is the list all_models itself
ShuffleModels ==
    /\ pc = "shuffle"
    /\ \E f \in Rearrangements(Len(selected_models)) :
          /\ selected_models' = Shuffled(selected_models, f)
          /\ all_models' = IF model = <<>> THEN Shuffled(selected_models, f)
                           ELSE all_models
    /\ pc' = "build"
    /\ UNCHANGED <<inputs, now, prompts, raw, model_names, unknown, scheduler,
                   ending>>

\* mutant: [(m, p) for p in prompts for m in selected_models]
CrossProductPromptMajor(models, ps) ==
    [k \in 1..(Len(models) * Len(ps)) |->
        [model |-> models[((k - 1) % Len(models)) + 1],
         prompt |-> ps[((k - 1) \div Len(models)) + 1]]]

\* [(m, p) for m in selected_models for p in prompts]
CrossProduct(models, ps) ==
    [k \in 1..(Len(models) * Len(ps)) |->
        [model |-> models[((k - 1) \div Len(ps)) + 1],
         prompt |-> ps[((k - 1) % Len(ps)) + 1]]]

\* mutant: the semaphore admits one call too many
SemaphoreValueOffByOne(c) == c + 1

\* asyncio.Semaphore(concurrency)
SemaphoreValue(c) == c

NotIssued == [st |-> "none", exc |-> NoExc]

\* cli.py 181-190 and 196: the work items; with concurrency > 1 also the
\* semaphore and one task per item, and _main suspends in as_completed
BuildTasks ==
    /\ pc = "build"
    /\ LET items == CrossProduct(selected_models, prompts) IN
       /\ tasks_to_run' = items
       /\ task' = [k \in 1..Len(items) |-> "created"]
       /\ call' = [k \in 1..Len(items) |-> NotIssued]
       /\ ret' = [k \in 1..Len(items) |-> NoResult]
       /\ start' = [k \in 1..Len(items) |-> <<>>]
       /\ elapsed' = [k \in 1..Len(items) |-> <<>>]
       /\ sem_value' = IF concurrency <= 1 THEN 0 ELSE SemaphoreValue(concurrency)
       /\ pc' = IF Len(items) = 0 THEN "format"
                ELSE IF concurrency <= 1 THEN "run_seq" ELSE "run_conc"
    /\ UNCHANGED <<inputs, now, prompts, selection, waiters, done_queue, results,
                   ending>>

\* ------------------------------------------- run_for_model_and_prompt
TimedOutMessage == "Generate timed out"

\* cli.py 166-168 and 178: wait_for returned resp
ResultOfReturn(item, resp) ==
    [model |-> item.model, prompt |-> item.prompt, status |-> "ok",
     response |-> resp]

\* mutant: `except Exception` comes first and takes every exception
ResultOfRaiseAsError(item, exc) ==
    [model |-> item.model, prompt |-> item.prompt, status |-> "error",
     response |-> [error |-> exc.desc]]

\* cli.py 169-176 and 178: wait_for raised exc, its own TimeoutError or an
\* exception of the call; the first except clause that matches decides
ResultOfRaise(item, exc) ==
    IF exc.kind = "TimeoutError"
    THEN [model |-> item.model, prompt |-> item.prompt, status |-> "timeout",
          response |-> [error |-> TimedOutMessage]]
    ELSE [model |-> item.model, prompt |-> item.prompt, status |-> "error",
          response |-> [error |-> exc.desc]]

\* -------------------------------------------------------------- semaphore
\* Semaphore.locked()
Locked == sem_value = 0 \/ waiters # <<>>

\* mutant: release() wakes the waiter that came last
NextWaiterLast(ws, tk) ==
    IF \E k \in 1..Len(ws) : tk[ws[k]] = "waiting"
    THEN ws[CHOOSE k \in 1..Len(ws) :
                /\ tk[ws[k]] = "waiting"
                /\ \A j \in (k + 1)..Len(ws) : tk[ws[j]] # "waiting"]
    ELSE 0

\* mutant: release() wakes no waiter
NextWaiterNone(ws, tk) == 0

\* Semaphore._wake_up_next: the first waiter whose future is not done, 0 if none
NextWaiter(ws, tk) ==
    IF \E k \in 1..Len(ws) : tk[ws[k]] = "waiting"
    THEN ws[CHOOSE k \in 1..Len(ws) :
                /\ tk[ws[k]] = "waiting"
                /\ \A j \in 1..(k - 1) : tk[ws[j]] # "waiting"]
    ELSE 0

Without(ws, i) == FilterOut(ws, {i})

\* the woken waiter that the event loop resumes next: set_result() schedules
\* the wake-up of a waiter with call_soon, and the loop runs what is
\* scheduled in that order, which is the order of the waiters; 0 if none
FirstWoken(ws, tk) ==
    IF \E k \in 1..Len(ws) : tk[ws[k]] = "woken"
    THEN ws[CHOOSE k \in 1..Len(ws) :
                /\ tk[ws[k]] = "woken"
                /\ \A j \in 1..(k - 1) : tk[ws[j]] # "woken"]
    ELSE 0

\* mutant: the permit of a finished item is not given back
AfterReleaseLeaks(v, w) == IF w = 0 THEN v ELSE v - 1

\* Semaphore.release(): sem._value once the permit is back and, if a waiter
\* w was there to wake, has gone to it
AfterRelease(v, w) == IF w = 0 THEN v + 1 ELSE v

\* mutant: start is the time at which the tasks were created
StartAtCreation(st, i, t) == [st EXCEPT ![i] = <<0>>]

\* cli.py 163: `start = loop.time()` of item i at time t
StartAt(st, i, t) == [st EXCEPT ![i] = <<t>>]

\* cli.py 177: `elapsed = loop.time() - start` of item i at time t
Elapsed(st, i, t) == t - st[i][1]

\* run_for_model_and_prompt starts for item i: it takes its start and the
\* generate call is issued under wait_for (cli.py 163-167)
Issue(i) ==
    /\ call' = [call EXCEPT ![i] = [st |-> "pending", exc |-> NoExc]]
    /\ start' = StartAt(start, i, now)

\* ---------------------------------------------------- sequential scheduler
\* mutant: the loop does not await an item before it starts the next
MayStartAny(i) == TRUE

\* cli.py 185-186: the loop starts the next item once the one before has
\* been appended
MayStartNext(i) == i = Len(results) + 1

SeqStart(i) ==
    /\ pc = "run_seq"
    /\ task[i] = "created"
    /\ MayStartNext(i)
    /\ task' = [task EXCEPT ![i] = "running"]
    /\ Issue(i)
    /\ UNCHANGED <<inputs, now, pc, prompts, selection, tasks_to_run, ret,
                   sem_value, waiters, done_queue, results, elapsed, ending>>

\* ---------------------------------------------------- concurrent scheduler
\* cli.py 192-194 and 196: the event loop starts the tasks in the order of
\* their creation; each acquires the semaphore or queues up for it
TaskStart(i) ==
    /\ pc = "run_conc"
    /\ task[i] = "created"
    /\ \A j \in 1..(i - 1) : task[j] # "created"
    /\ IF ~Locked
       THEN /\ sem_value' = sem_value - 1
            /\ task' = [task EXCEPT ![i] = "running"]
            /\ Issue(i)
            /\ UNCHANGED waiters
       ELSE /\ waiters' = Append(waiters, i)
            /\ task' = [task EXCEPT ![i] = "waiting"]
            /\ UNCHANGED <<sem_value, call, start>>
    /\ UNCHANGED <<inputs, now, pc, prompts, selection, tasks_to_run, ret,
                   done_queue, results, elapsed, ending>>

\* cli.py 193-194: a waiter woken by release() resumes in acquire(), leaves
\* the waiters, passes a spare permit on and issues its call
WaiterResumes(i) ==
    /\ pc = "run_conc"
    /\ task[i] = "woken"
    /\ i = FirstWoken(waiters, task)
    /\ LET ws == Without(waiters, i)
           w == IF sem_value > 0 THEN NextWaiter(ws, task) ELSE 0
       IN /\ waiters' = ws
          /\ sem_value' = IF w = 0 THEN sem_value ELSE sem_value - 1
          /\ task' = [k \in Items |->
                        IF k = i THEN "running"
                        ELSE IF k = w THEN "woken" ELSE task[k]]
    /\ Issue(i)
    /\ UNCHANGED <<inputs, now, pc, prompts, selection, tasks_to_run, ret,
                   done_queue, results, elapsed, ending>>

\* ------------------------------------------------- an item's attempt ends
\* run_for_model_and_prompt returns r for item i, its call now being st.
\* Sequential (cli.py 186-187): the loop appends r.  Concurrent
\* (cli.py 193-194): the task leaves `async with sem`, which releases the
\* semaphore, and finishes; as_completed queues it for _main.
Finish(i, r, st) ==
    /\ ret' = [ret EXCEPT ![i] = r]
    /\ elapsed' = [elapsed EXCEPT ![i] = <<Elapsed(start, i, now)>>]
    /\ call' = [call EXCEPT ![i] = st]
    /\ IF concurrency <= 1
       THEN /\ results' = Append(results, r)
            /\ task' = [task EXCEPT ![i] = "done"]
            /\ pc' = IF Len(results) + 1 = N THEN "format" ELSE pc
            /\ UNCHANGED <<sem_value, waiters, done_queue>>
       ELSE LET w == NextWaiter(waiters, task) IN
            /\ sem_value' = AfterRelease(sem_value, w)
            /\ task' = [k \in Items |->
                          IF k = i THEN "done"
                          ELSE IF k = w THEN "woken" ELSE task[k]]
            /\ done_queue' = Append(done_queue, i)
            /\ UNCHANGED <<waiters, results, pc>>
    /\ UNCHANGED <<inputs, now, prompts, selection, tasks_to_run, start,
                   ending>>

\* the responses explored: every combination of counters in runs of one
\* work item, those of Responses in longer runs
BackendResponses == IF N = 1 THEN Responses \cup WideResponses ELSE Responses

\* mutant: once an item has failed, no call returns any more
GenerateReturnsUnlessFailed(i, resp) ==
    /\ pc \in {"run_seq", "run_conc"}
    /\ call[i].st = "pending"
    /\ \A j \in Items : ret[j] = NoResult \/ ret[j].status = "ok"
    /\ Finish(i, ResultOfReturn(tasks_to_run[i], resp),
              [st |-> "returned", exc |-> NoExc])

\* the backend answers the call of item i before the timeout
GenerateReturns(i, resp) ==
    /\ pc \in {"run_seq", "run_conc"}
    /\ call[i].st = "pending"
    /\ Finish(i, ResultOfReturn(tasks_to_run[i], resp),
              [st |-> "returned", exc |-> NoExc])

\* the call of item i raises before the timeout
GenerateRaises(i, exc) ==
    /\ pc \in {"run_seq", "run_conc"}
    /\ call[i].st = "pending"
    /\ Finish(i, ResultOfRaise(tasks_to_run[i], exc),
              [st |-> "raised", exc |-> exc])

\* mutant: the timeout of wait_for never elapses
TimeoutNever(i) == FALSE /\ UNCHANGED vars

\* mutant: the timeout of item i cancels every pending call
TimeoutCancelsAll(i) ==
    /\ pc \in {"run_seq", "run_conc"}
    /\ call[i].st = "pending"
    /\ call' = [k \in Items |->
                  IF call[k].st = "pending"
                  THEN [st |-> "cancelling", exc |-> NoExc] ELSE call[k]]
    /\ UNCHANGED <<inputs, now, pc, prompts, selection, tasks_to_run, task,
                   ret, sem_value, waiters, done_queue, results, start,
                   elapsed, ending>>

\* cli.py 167: the timeout elapses with the call of item i pending; wait_for
\* cancels the call and waits for it to end
TimeoutElapses(i) ==
    /\ pc \in {"run_seq", "run_conc"}
    /\ call[i].st = "pending"
    /\ call' = [call EXCEPT ![i] = [st |-> "cancelling", exc |-> NoExc]]
    /\ UNCHANGED <<inputs, now, pc, prompts, selection, tasks_to_run, task,
                   ret, sem_value, waiters, done_queue, results, start,
                   elapsed, ending>>

\* the cancelled call has ended; wait_for raises TimeoutError
CallCancelled(i) ==
    /\ pc \in {"run_seq", "run_conc"}
    /\ call[i].st = "cancelling"
    /\ Finish(i, ResultOfRaise(tasks_to_run[i], WaitForTimeout),
              [st |-> "cancelled", exc |-> NoExc])

\* mutant: the loop over as_completed ends one result early
AllCollectedEarly(rs) == Len(rs) >= N - 1

\* cli.py 197-198: _main takes the next finished task from as_completed and
\* appends its result; after the last one the loop ends
AllCollected(rs) == Len(rs) = N

\* mutant: _main takes the task that finished last
CollectLast ==
    /\ pc = "run_conc"
    /\ done_queue # <<>>
    /\ results' = Append(results, ret[done_queue[Len(done_queue)]])
    /\ done_queue' = SubSeq(done_queue, 1, Len(done_queue) - 1)
    /\ pc' = IF AllCollected(results') THEN "format" ELSE pc
    /\ UNCHANGED <<inputs, now, prompts, selection, tasks_to_run, task, call,
                   ret, sem_value, waiters, start, elapsed, ending>>

Collect ==
    /\ pc = "run_conc"
    /\ done_queue # <<>>
    /\ results' = Append(results, ret[Head(done_queue)])
    /\ done_queue' = Tail(done_queue)
    /\ pc' = IF AllCollected(results') THEN "format" ELSE pc
    /\ UNCHANGED <<inputs, now, prompts, selection, tasks_to_run, task, call,
                   ret, sem_value, waiters, start, elapsed, ending>>

\* ------------------------------------------------------------- the report
\* cli.py 230-233 and 257-260: the rate is set under `name` when both
\* counters are truthy
RateField(name, resp, count_key, duration_key) ==
    IF /\ TruthyNumber(GetNumber(resp, count_key))
       /\ TruthyNumber(GetNumber(resp, duration_key))
    THEN name :> Rate(resp[count_key], resp[duration_key])
    ELSE EmptyMapping

\* cli.py 223-233
Metrics(resp) ==
    [prompt_eval_count |-> GetNumber(resp, "prompt_eval_count"),
     prompt_eval_duration |-> GetNumber(resp, "prompt_eval_duration"),
     eval_count |-> GetNumber(resp, "eval_count"),
     eval_duration |-> GetNumber(resp, "eval_duration")]
    @@ RateField("prompt_tokens_per_sec", resp,
                 "prompt_eval_count", "prompt_eval_duration")
    @@ RateField("response_tokens_per_sec", resp,
                 "eval_count", "eval_duration")

\* mutant: the error field is set outside the else branch
ResultEntryAlwaysError(r) ==
    IF r.status = "ok"
    THEN [model |-> r.model.name, prompt |-> r.prompt, status |-> r.status,
          metrics |-> Metrics(r.response),
          error |-> Get(r.response, "error", "Unknown error")]
    ELSE [model |-> r.model.name, prompt |-> r.prompt, status |-> r.status,
          error |-> Get(r.response, "error", "Unknown error")]

\* cli.py 213-240: the entry of result r in the JSON report
ResultEntry(r) ==
    IF r.status = "ok"
    THEN [model |-> r.model.name, prompt |-> r.prompt, status |-> r.status,
          metrics |-> Metrics(r.response)]
    ELSE [model |-> r.model.name, prompt |-> r.prompt, status |-> r.status,
          error |-> Get(r.response, "error", "Unknown error")]

\* cli.py 202-242
JsonReport ==
    [kind |-> "json",
     config |-> [prompts |-> prompts,
                 models |-> [k \in 1..Len(selected_models) |->
                                selected_models[k].name],
                 concurrency |-> concurrency,
                 timeout |-> timeout],
     results |-> [k \in 1..Len(results) |-> ResultEntry(results[k])]]

\* cli.py 246-263: what the text report says of result r
TextBlock(r) ==
    IF r.status # "ok"
    THEN [model |-> r.model.name, status |-> r.status,
          error |-> r.response.error]
    ELSE [model |-> r.model.name, prompt |-> r.prompt, status |-> r.status,
          prompt_eval_count |-> Get(r.response, "prompt_eval_count", "-")]
         @@ RateField("prompt rate", r.response,
                      "prompt_eval_count", "prompt_eval_duration")
         @@ RateField("response rate", r.response,
                      "eval_count", "eval_duration")

\* cli.py 244-264
TextReport ==
    [kind |-> "text",
     blocks |-> [k \in 1..Len(results) |-> TextBlock(results[k])]]

\* mutant: the branch of a failed result reads a key its response lacks
FormatRaisesOnFailure ==
    \E k \in 1..Len(results) : results[k].status # "ok"

\* resp.get(...) of cli.py 224 and 256 raises AttributeError when an ok
\* result holds a value without .get
FormatRaises ==
    \E k \in 1..Len(results) :
        results[k].status = "ok" /\ ~HasGet(results[k].response)

\* cli.py 201-264
Format ==
    /\ pc = "format"
    /\ IF FormatRaises
       THEN /\ caught' = [kind |-> "AttributeError", desc |-> "no attribute get"]
            /\ pc' = "except"
            /\ UNCHANGED output_str
       ELSE /\ output_str' = IF output_format = "json" THEN JsonReport
                             ELSE TextReport
            /\ pc' = "write"
            /\ UNCHANGED caught
    /\ UNCHANGED <<inputs, now, prompts, selection, scheduler, written, exit_code,
                   closes>>

\* cli.py 267-272: the report reaches the file or stdout
WriteOutput ==
    /\ pc = "write"
    /\ written' = output_str
    /\ pc' = "finally"
    /\ UNCHANGED <<inputs, now, prompts, selection, scheduler, output_str, caught,
                   exit_code, closes>>

\* cli.py 267-272: open(), write() or click.echo raises
WriteRaises ==
    /\ pc = "write"
    /\ caught' = [kind |-> "OSError", desc |-> "cannot write output"]
    /\ pc' = "except"
    /\ UNCHANGED <<inputs, now, prompts, selection, scheduler, output_str, written,
                   exit_code, closes>>

\* ----------------------------------------------- list-models and generate
\* cli.py 76-77: the listing is printed
PrintModels ==
    /\ pc = "print"
    /\ command = "list-models"
    /\ written' = [kind |-> "models", names |-> model_names]
    /\ pc' = "finally"
    /\ UNCHANGED <<inputs, now, prompts, selection, scheduler, output_str, caught,
                   exit_code, closes>>

\* cli.py 99-101: _main of generate issues its call, which has no timeout
GenerateStart ==
    /\ pc = "start"
    /\ command = "generate"
    /\ pc' = "generate"
    /\ UNCHANGED <<inputs, now, prompts, selection, scheduler, ending>>

\* cli.py 101-102
GenerateCommandReturns(resp) ==
    /\ pc = "generate"
    /\ output_str' = [kind |-> "raw", raw |-> resp]
    /\ pc' = "print"
    /\ UNCHANGED <<inputs, now, prompts, selection, scheduler, written, caught,
                   exit_code, closes>>

\* cli.py 103
GenerateCommandRaises(exc) ==
    /\ pc = "generate"
    /\ caught' = exc
    /\ pc' = "except"
    /\ UNCHANGED <<inputs, now, prompts, selection, scheduler, output_str, written,
                   exit_code, closes>>

\* cli.py 102: click.echo
PrintRaw ==
    /\ pc = "print"
    /\ command = "generate"
    /\ written' = output_str
    /\ pc' = "finally"
    /\ UNCHANGED <<inputs, now, prompts, selection, scheduler, output_str, caught,
                   exit_code, closes>>

\* cli.py 77 and 102: rendering or click.echo raises
PrintRaises ==
    /\ pc = "print"
    /\ caught' = [kind |-> "OSError", desc |-> "cannot print"]
    /\ pc' = "except"
    /\ UNCHANGED <<inputs, now, prompts, selection, scheduler, output_str, written,
                   exit_code, closes>>

\* --------------------------------------------------- except and finally
\* mutant: the process exits in the except clause, the finally clause is
\* not run
HandleExceptionNoFinally ==
    /\ pc = "except"
    /\ exit_code' = 1
    /\ pc' = "done"
    /\ UNCHANGED <<inputs, now, prompts, selection, scheduler, output_str, written,
                   caught, closes>>

\* cli.py 78-81, 103-106, 274-277: the error is echoed and sys.exit(1)
\* raises SystemExit, which leaves through the finally clause
HandleException ==
    /\ pc = "except"
    /\ exit_code' = 1
    /\ pc' = "finally"
    /\ UNCHANGED <<inputs, now, prompts, selection, scheduler, output_str, written,
                   caught, closes>>

\* cli.py 82-86, 107-111, 278-282: client.close() is awaited; an Exception
\* it raises is logged and dropped.  Then _main ends and the process exits.
CloseClient(raises) ==
    /\ pc = "finally"
    /\ closes' = Append(closes, IF raises THEN "raised" ELSE "closed")
    /\ exit_code' = IF exit_code = -1 THEN 0 ELSE exit_code
    /\ pc' = "done"
    /\ UNCHANGED <<inputs, now, prompts, selection, scheduler, output_str, written,
                   caught>>

\* ------------------------------------------------------------------- Next
\* the backend lists every model once
Listings ==
    {l \in SeqsUpTo(Names, MaxModels) :
        \A a, b \in 1..Len(l) : l[a] = l[b] => a = b}

\* the listing l as a list of mappings with a name
PlainList(l) == ListOf([k \in 1..Len(l) |-> DictItem(<<l[k]>>, <<>>, <<>>)])

Next ==
    \/ BuildPrompts
    \/ ListModelsStart
    \/ GenerateStart
    \/ \E l \in Listings : ListReturns(PlainList(l))
    \/ ListRaises
    \/ SelectModels
    \/ ShuffleModels
    \/ BuildTasks
    \/ \E i \in Items : SeqStart(i)
    \/ \E i \in Items : TaskStart(i)
    \/ \E i \in Items : WaiterResumes(i)
    \/ \E i \in Items, resp \in BackendResponses : GenerateReturns(i, resp)
    \/ \E i \in Items, exc \in Failures : GenerateRaises(i, exc)
    \/ \E i \in Items : TimeoutElapses(i)
    \/ \E i \in Items : CallCancelled(i)
    \/ Collect
    \/ Format
    \/ WriteOutput
    \/ WriteRaises
    \/ PrintModels
    \/ \E resp \in Responses : GenerateCommandReturns(resp)
    \/ \E exc \in Failures : GenerateCommandRaises(exc)
    \/ PrintRaw
    \/ PrintRaises
    \/ HandleException
    \/ \E raises \in BOOLEAN : CloseClient(raises)

Spec == Init /\ [][Next]_vars

\* ------------------------------------------------- the scheduler, fair
\* The benchmark command up to the formatting of its report.  The event loop
\* runs every task that can run, and the timer of wait_for fires when its
\* call is still pending; a cancelled call ends.  The backend need not
\* answer; when it does, it is with a response or a failure of one kind.
TypicalResponse == Response(<<100>>, <<1000000000>>, <<50>>, <<0>>)
TypicalFailure == [kind |-> "ResponseError", desc |-> "model not found"]

FairNext ==
    \/ BuildPrompts
    \/ \E l \in Listings : ListReturns(PlainList(l))
    \/ ListRaises
    \/ SelectModels
    \/ ShuffleModels
    \/ BuildTasks
    \/ \E i \in Items : SeqStart(i)
    \/ \E i \in Items : TaskStart(i)
    \/ \E i \in Items : WaiterResumes(i)
    \/ \E i \in Items : GenerateReturns(i, TypicalResponse)
    \/ \E i \in Items : GenerateRaises(i, TypicalFailure)
    \/ \E i \in Items : TimeoutElapses(i)
    \/ \E i \in Items : CallCancelled(i)
    \/ Collect

Fairness ==
    /\ \A i \in 1..(MaxItems + 1) :
          /\ WF_vars(i \in Items /\ SeqStart(i))
          /\ WF_vars(i \in Items /\ TaskStart(i))
          /\ WF_vars(i \in Items /\ WaiterResumes(i))
          /\ WF_vars(i \in Items /\ TimeoutElapses(i))
          /\ WF_vars(i \in Items /\ CallCancelled(i))
    /\ WF_vars(Collect)

FairSpec ==
    InitOf(SchedulingRuns \cup SelectionRuns) /\ [][FairNext]_vars /\ Fairness

\* ------------------------------------------------- the queue for a slot
\* Concurrent runs of up to MaxQueueItems work items, so that more than one
\* item waits for a slot; a call returns or outlasts the timeout.
MaxQueueItems == 4

QueueRuns ==
    {CommandLine("benchmark", <<>>, FileOfLength(n), None, c, t, "json") :
        n \in 1..MaxPrompts, c \in 2..MaxConc, t \in Timeouts}

QueueNext ==
    \/ BuildPrompts
    \/ \E l \in Listings : ListReturnsUpTo(PlainList(l), MaxQueueItems)
    \/ SelectModels
    \/ ShuffleModels
    \/ BuildTasks
    \/ \E i \in Items : TaskStart(i)
    \/ \E i \in Items : WaiterResumes(i)
    \/ \E i \in Items : GenerateReturns(i, TypicalResponse)
    \/ \E i \in Items : TimeoutElapses(i)
    \/ \E i \in Items : CallCancelled(i)
    \/ Collect

QueueSpec == InitOf(QueueRuns) /\ [][QueueNext]_vars

\* ------------------------------------------------------ the run in time
\* Concurrent runs of one model over up to MaxConcItems prompts on a clock of
\* whole seconds, up to MaxTime, with -t ShortTimeout.  The clock moves while
\* the scheduler runs; the timer of a wait_for fires when it is due, before
\* the clock moves on, and a call that answers does so before its timer is
\* due; a call answers or hangs.
MaxTime == 4
ShortTimeout == 2

TimedRuns ==
    {CommandLine("benchmark", <<>>, FileOfLength(n), None, c, ShortTimeout,
                 "json") :
        n \in 1..MaxPrompts, c \in 2..MaxConc}

\* cli.py 167: when the timer that wait_for sets for the call of item i is due
Deadline(i) == start[i][1] + timeout

Tick ==
    /\ pc \in {"run_seq", "run_conc"}
    /\ now < MaxTime
    /\ \A i \in Items : call[i].st = "pending" => now < Deadline(i)
    /\ now' = now + 1
    /\ UNCHANGED <<inputs, pc, prompts, selection, scheduler, ending>>

TimerFires(i) ==
    /\ call[i].st = "pending"
    /\ now >= Deadline(i)
    /\ TimeoutElapses(i)

AnswersInTime(i, resp) ==
    /\ call[i].st = "pending"
    /\ now < Deadline(i)
    /\ GenerateReturns(i, resp)

TimedNext ==
    \/ BuildPrompts
    \/ ListReturnsUpTo(PlainList(<<"a">>), MaxConcItems)
    \/ SelectModels
    \/ ShuffleModels
    \/ BuildTasks
    \/ \E i \in Items : TaskStart(i)
    \/ \E i \in Items : WaiterResumes(i)
    \/ \E i \in Items : AnswersInTime(i, TypicalResponse)
    \/ \E i \in Items : TimerFires(i)
    \/ \E i \in Items : CallCancelled(i)
    \/ Collect
    \/ Tick

TimedSpec == InitOf(TimedRuns) /\ [][TimedNext]_vars

\* ---------------------------------------- the preparation of a benchmark
\* The benchmark command from its command line to its work items, for every
\* prompts file of up to MaxPrompts lines and every --prompt text.
PromptFiles == {NoFile} \cup {File(l) : l \in SeqsUpTo(FileLines, MaxPrompts)}
PromptTexts == {None, "", "p"}

PromptRuns ==
    {CommandLine("benchmark", <<>>, file, text, 1, t, "json") :
        file \in PromptFiles, text \in PromptTexts, t \in Timeouts}

PrepInit == InitOf(PromptRuns)

PrepNext ==
    \/ BuildPrompts
    \/ \E l \in Listings : ListReturns(PlainList(l))
    \/ ListRaises
    \/ SelectModels
    \/ ShuffleModels
    \/ BuildTasks

PrepSpec == PrepInit /\ [][PrepNext]_vars

\* ------------------------------------------------ the list-models command
\* The list-models command against a backend whose listing has up to
\* MaxModels items of every shape, as a list, under "models", or streamed.
ItemShapes ==
    {StrItem(s_) : s_ \in {"", "s"}}
    \cup {DictItem(n, m, <<>>) : n \in {<<>>, <<"">>, <<"a">>},
                                 m \in {<<>>, <<"b">>}}
    \cup {DictItem(<<"">>, <<>>, <<"c">>)}
    \cup {ObjectItem(n, <<>>) : n \in {<<>>, <<"o">>}}
    \cup {ObjectItem(<<>>, <<"m">>)}

RawListings ==
    {ListOf(l) : l \in SeqsUpTo(ItemShapes, MaxModels)}
    \cup {Wrapper(l) : l \in SeqsUpTo(ItemShapes, MaxModels)}
    \cup {Stream(l) : l \in SeqsUpTo(ItemShapes, MaxModels)}
    \cup {Stream(<<ListOf(l), NonePart, Wrapper(l)>>) :
              l \in SeqsUpTo(ItemShapes, 1)}

ListInit ==
    InitOf({CommandLine("list-models", <<>>, NoFile, None, 1, t, "json") :
                t \in Timeouts})

ListNext ==
    \/ ListModelsStart
    \/ \E raw_ \in RawListings : ListReturns(raw_)
    \/ ListRaises
    \/ PrintModels
    \/ PrintRaises
    \/ HandleException
    \/ \E raises \in BOOLEAN : CloseClient(raises)

ListSpec == ListInit /\ [][ListNext]_vars

\* ================================================================= claims
Statuses == {"ok", "timeout", "error"}

\* the benchmark command has left the scheduler: every loop of cli.py 183-198
\* is over and _main is at or past the formatting of the report
SchedulingOver ==
    /\ command = "benchmark"
    /\ pc \in {"format", "write", "except", "finally", "done"}
    /\ caught.kind \notin {"ConnectionError", "ValueError"}

\* the (model, prompt) pairs of the results, in results order
ResultPairs ==
    [k \in 1..Len(results) |->
        [model |-> results[k].model, prompt |-> results[k].prompt]]

HasStatus(s) == \E k \in 1..Len(results) : results[k].status = s

\* C1: once the scheduler is over, results holds exactly one result per work
\* item of selected_models x prompts: as many results as work items, and
\* every (model, prompt) pair as often in results as in tasks_to_run.
C1_OneResultPerItem ==
    SchedulingOver =>
        /\ Len(results) = Len(selected_models) * Len(prompts)
        /\ IsPermutationOf(ResultPairs, tasks_to_run)
        /\ \A i \in Items : ret[i].status \in Statuses

\* C1 happens: a concurrent run of three items ends with one ok, one timeout
\* and one error result, collected in another order than the work items.
C1_Witness ==
    /\ SchedulingOver
    /\ concurrency > 1
    /\ N = MaxConcItems
    /\ HasStatus("ok") /\ HasStatus("timeout") /\ HasStatus("error")
    /\ ResultPairs # tasks_to_run

\* C2: with concurrency > 1, never more generate calls in flight (issued, and
\* neither returned nor raised nor ended by the cancellation of wait_for)
\* than the concurrency.
C2_InFlightBounded ==
    (command = "benchmark" /\ concurrency > 1) =>
        Cardinality(InFlight) <= concurrency

\* C2 happens: the limit is reached with an item waiting for a slot and an
\* earlier item already finished, one of the calls being cancelled.
C2_Witness ==
    /\ concurrency > 1
    /\ Cardinality(InFlight) = concurrency
    /\ \E i \in Items : task[i] = "done"
    /\ \E i \in Items : call[i].st = "cancelling"
    /\ N > concurrency

\* C3: with concurrency 1, at most one call is in flight, the call of an item
\* is issued only when every earlier item has its result in results, and
\* results follows the order of tasks_to_run.
C3_SequentialInOrder ==
    (command = "benchmark" /\ concurrency = 1) =>
        /\ Cardinality(InFlight) <= 1
        /\ \A i \in Items : call[i].st # "none" =>
              /\ Len(results) >= i - 1
              /\ \A j \in 1..(i - 1) : results[j] = ret[j]
        /\ \A k \in 1..Len(results) :
              /\ results[k].model = tasks_to_run[k].model
              /\ results[k].prompt = tasks_to_run[k].prompt
              /\ results[k].status \in Statuses

\* C3 happens: a sequential run of 2 x 2 items is over, with results of
\* different statuses.
C3_Witness ==
    /\ SchedulingOver
    /\ concurrency = 1
    /\ N = MaxItems
    /\ HasStatus("ok") /\ HasStatus("timeout") /\ HasStatus("error")

\* C4: an item whose call was still pending when the timeout elapsed, and was
\* cancelled by wait_for, has a result of status timeout whose error message
\* is the one fixed text, whatever the model, the prompt and the concurrency;
\* until the cancelled call has ended the item has no result.
C4_TimeoutResult ==
    \A i \in Items :
        /\ call[i].st = "cancelled" =>
              /\ ret[i].status = "timeout"
              /\ ret[i].response = [error |-> TimedOutMessage]
              /\ ret[i].model = tasks_to_run[i].model
              /\ ret[i].prompt = tasks_to_run[i].prompt
        /\ call[i].st = "cancelling" => ret[i] = NoResult

\* C4 happens: in a concurrent run two items with different prompts timed out
\* and both results were collected.
C4_Witness ==
    /\ concurrency > 1
    /\ \E i, j \in Items :
          /\ tasks_to_run[i].prompt # tasks_to_run[j].prompt
          /\ call[i].st = "cancelled" /\ call[j].st = "cancelled"
          /\ \E k, l \in 1..Len(results) :
                k # l /\ results[k] = ret[i] /\ results[l] = ret[j]

\* C4 also happens in a sequential run.
C4_WitnessSequential ==
    /\ concurrency = 1
    /\ \E i \in Items : call[i].st = "cancelled" /\ results[i] = ret[i]

\* C5: an item whose call raised before the timeout has a result of status
\* error whose error message is the description of the exception raised.
C5_RaisedIsError ==
    \A i \in Items :
        call[i].st = "raised" =>
            /\ ret[i].status = "error"
            /\ ret[i].response = [error |-> call[i].exc.desc]

\* the entries of a JSON report
Entries(report) ==
    IF report.kind = "json" THEN Range(report.results) ELSE {}

\* C6: every entry of the JSON report, as formatted and as written, has a
\* status of ok, timeout or error; it has a metrics field exactly when the
\* status is ok and an error field exactly when it is timeout or error.
C6_StatusMatchesPayload ==
    \A e \in Entries(output_str) \cup Entries(written) :
        /\ e.status \in Statuses
        /\ ("metrics" \in DOMAIN e) <=> (e.status = "ok")
        /\ ("error" \in DOMAIN e) <=> (e.status \in {"timeout", "error"})

\* C6 happens: a written JSON report has an ok, a timeout and an error entry.
C6_Witness ==
    /\ written.kind = "json"
    /\ \A s \in Statuses : \E e \in Entries(written) : e.status = s

\* the ok entries of a JSON report
OkEntries(report) == {e \in Entries(report) : e.status = "ok"}

\* metrics m has the rate `name` exactly when Present(count, duration) holds
\* of its two counters, and the rate then is count / duration * 10^9
RateRule(m, name, count_key, duration_key, needs_count) ==
    LET has == /\ m[count_key] # <<>>
               /\ m[duration_key] # <<>>
               /\ m[duration_key][1] > 0
               /\ needs_count => m[count_key][1] # 0
    IN /\ (name \in DOMAIN m) <=> has
       /\ has => m[name] = Rate(m[count_key][1], m[duration_key][1])

\* C11: in every ok entry of the JSON report, prompt_tokens_per_sec is present
\* exactly when prompt_eval_count and prompt_eval_duration are both present
\* and the duration is > 0, and then is count / duration * 10^9; the same for
\* response_tokens_per_sec with eval_count and eval_duration.
C11_RateWhenDurationPositive ==
    \A e \in OkEntries(output_str) :
        /\ RateRule(e.metrics, "prompt_tokens_per_sec",
                    "prompt_eval_count", "prompt_eval_duration", FALSE)
        /\ RateRule(e.metrics, "response_tokens_per_sec",
                    "eval_count", "eval_duration", FALSE)

\* What the code does for C11: the rate is present exactly when, in addition,
\* the count is not zero; a zero or missing duration raises nothing.
C11_RateWhenBothNonZero ==
    /\ \A e \in OkEntries(output_str) :
          /\ RateRule(e.metrics, "prompt_tokens_per_sec",
                      "prompt_eval_count", "prompt_eval_duration", TRUE)
          /\ RateRule(e.metrics, "response_tokens_per_sec",
                      "eval_count", "eval_duration", TRUE)
    /\ caught.kind = "AttributeError" =>
          \E k \in 1..Len(results) : ~HasGet(results[k].response)

\* a report holds the rate 100 of count 100 and duration 10^9 and no rate for
\* a duration of zero
C11_RatesReported ==
    \E e \in OkEntries(written) :
        /\ "prompt_tokens_per_sec" \in DOMAIN e.metrics
        /\ e.metrics.prompt_tokens_per_sec = [num |-> 100, den |-> 1]
        /\ e.metrics.eval_duration = <<0>>
        /\ "response_tokens_per_sec" \notin DOMAIN e.metrics


\* the benchmark command has resolved its prompts
PromptsResolved == command = "benchmark" /\ pc # "start"

\* C12: the resolved prompts are a non-empty sequence, whatever the prompts
\* file and the --prompt text.
C12_PromptsNonEmpty == PromptsResolved => prompts # <<>>

\* the lines of the file that are not blank, as they are in the file
RECURSIVE NonBlank(_)
NonBlank(lines) ==
    IF lines = <<>> THEN <<>>
    ELSE IF Strip(Head(lines)) # ""
         THEN <<Head(lines)>> \o NonBlank(Tail(lines))
         ELSE NonBlank(Tail(lines))

\* the work items are built
ItemsBuilt == PromptsResolved /\ pc \in {"run_seq", "run_conc", "format"}

\* every selected model has, for every prompt, as many work items as the
\* prompt occurs in prompts
ItemsPerPrompt ==
    \A k \in 1..Len(selected_models), j \in 1..Len(prompts) :
        Count(tasks_to_run,
              [model |-> selected_models[k], prompt |-> prompts[j]])
            = Count(prompts, prompts[j])

\* C13 as stated: with a prompts file the prompts are its non-blank lines in
\* file order, repeated lines kept, and --prompt is ignored; otherwise a given
\* --prompt text is the only prompt; otherwise the default prompt is.
C13_OneSourceAsGiven ==
    /\ PromptsResolved =>
          prompts = (IF prompts_file.given THEN NonBlank(prompts_file.lines)
                     ELSE IF prompt_text # None THEN <<prompt_text>>
                     ELSE <<DEFAULT_PROMPT>>)
    /\ ItemsBuilt => ItemsPerPrompt

\* C13 amended: with a prompts file the prompts are its non-blank lines, each
\* stripped of the whitespace around it, in file order and with repeated
\* lines kept, and --prompt is ignored; otherwise a --prompt text that is not
\* empty is the only prompt; otherwise the default prompt is.  Every model
\* has one work item per occurrence of a prompt.
C13_OneSourceStripped ==
    /\ PromptsResolved =>
          /\ prompts_file.given =>
                /\ Len(prompts) = Len(NonBlank(prompts_file.lines))
                /\ \A k \in 1..Len(prompts) :
                      prompts[k] = Strip(NonBlank(prompts_file.lines)[k])
          /\ (~prompts_file.given /\ prompt_text \notin {None, ""}) =>
                prompts = <<prompt_text>>
          /\ (~prompts_file.given /\ prompt_text \in {None, ""}) =>
                prompts = <<DEFAULT_PROMPT>>
    /\ ItemsBuilt => ItemsPerPrompt

\* C13 happens: a file holding a line twice around a blank line is given
\* together with a --prompt text; both occurrences are prompts, the text is
\* not, and each of two models has two work items for the line.
C13_Witness ==
    /\ ItemsBuilt
    /\ prompts_file = File(<<"p", "  ", "p">>)
    /\ prompt_text = "p"
    /\ prompts = <<"p", "p">>
    /\ Len(selected_models) = 2
    /\ N = 4


\* cli.py 184-190: the most calls the scheduler lets be in flight
EnforcedConcurrency ==
    IF concurrency <= 1 THEN 1 ELSE SemaphoreValue(concurrency)

\* the config section of a JSON report echoes the prompts, the model order of
\* the work items and the timeout of the run, and gives c as concurrency
ConfigEchoes(report, c) ==
    /\ report.config.prompts = prompts
    /\ Len(report.config.models) = Len(selected_models)
    /\ \A k \in Items :
          tasks_to_run[k].model.name
              = report.config.models[((k - 1) \div Len(prompts)) + 1]
    /\ report.config.timeout = timeout
    /\ report.config.concurrency = c

\* C14: the config section of the JSON report holds the resolved prompts, the
\* selected model names in the order of the work items, the timeout of the
\* generate calls, and the concurrency the scheduler enforced, which is 1
\* when the run is sequential.
C14_ConfigEchoesRun ==
    output_str.kind = "json" => ConfigEchoes(output_str, EnforcedConcurrency)

\* What the code does for C14: config.concurrency is the -c option as given;
\* no more calls than EnforcedConcurrency are ever in flight.
C14_ConfigEchoesOption ==
    /\ output_str.kind = "json" => ConfigEchoes(output_str, concurrency)
    /\ command = "benchmark" => Cardinality(InFlight) <= EnforcedConcurrency


\* an item of a backend listing, as opposed to None or a batch of items
IsItem(part) == part.kind \in {"str", "dict", "object"}

\* list_models has returned the Models of a list of items or of a stream
\* that yielded its items one at a time
ItemsListed ==
    \/ raw.kind = "list"
    \/ raw.kind = "stream" /\ \A k \in 1..Len(raw.parts) : IsItem(raw.parts[k])

BackendItems == IF raw.kind = "list" THEN raw.items ELSE raw.parts

\* the item is a name, or has one under its name key or attribute
IsNamed(item) == item.kind = "str" \/ TruthyStr(item.name)
NameOf(item) == IF item.kind = "str" THEN item.value ELSE item.name[1]

\* C15: of a list of items and of a stream yielding the items one at a time,
\* list_models returns one Model per item, in the order of the items, each
\* with the name of its item.
C15_OneModelPerItem ==
    (command = "list-models" /\ ItemsListed) =>
        /\ Len(all_models) = Len(BackendItems)
        /\ \A k \in 1..Len(BackendItems) :
              IsNamed(BackendItems[k]) =>
                  all_models[k].name = NameOf(BackendItems[k])
        /\ model_names = [k \in 1..Len(all_models) |-> all_models[k].name]

\* C15 happens: a stream yielded a mapping named a and then the name s; the
\* command has printed the two models in that order.
C15_Witness ==
    /\ raw = Stream(<<DictItem(<<"a">>, <<>>, <<>>), StrItem("s")>>)
    /\ all_models = <<Model("a"), Model("s")>>
    /\ written = [kind |-> "models", names |-> <<"a", "s">>]
    /\ pc = "done"

\* C15 also happens for a list of the same items.
C15_WitnessList ==
    /\ raw = ListOf(<<DictItem(<<"a">>, <<>>, <<>>), StrItem("s")>>)
    /\ all_models = <<Model("a"), Model("s")>>

\* C16: every Model list_models made of a listing item has a name that is
\* not empty.
C16_NameNonEmpty ==
    raw # NoRaw => \A k \in 1..Len(all_models) : all_models[k].name # ""

\* What the code does for C16: the name is empty only for an item that is
\* the empty str.
C16_NameEmptyOnlyOfEmptyStr ==
    raw # NoRaw =>
        \A k \in 1..Len(all_models) :
            all_models[k].name = "" => GatheredItems(raw)[k] = StrItem("")


\* the run is in, or past, the scheduler of cli.py 190-198
ConcurrentRun ==
    /\ command = "benchmark" /\ concurrency > 1
    /\ pc \notin {"start", "list", "select", "shuffle", "build"}
    /\ caught.kind \notin {"ConnectionError", "ValueError"}

\* work items whose call is not issued yet
NotAdmitted == {i \in Items : task[i] \in {"created", "waiting", "woken"}}

\* some item can take a step that issues its call
AdmissionEnabled ==
    \E i \in Items :
        \/ ~Locked /\ ENABLED TaskStart(i)
        \/ ENABLED WaiterResumes(i)

\* C17: with concurrency C > 1, whenever fewer than C calls are in flight and
\* an item is not admitted yet, some item can be admitted at once, whatever
\* the calls in flight do.
C17_NoBarrier ==
    (ConcurrentRun /\ pc = "run_conc" /\ NotAdmitted # {}
        /\ Cardinality(InFlight) < concurrency) => AdmissionEnabled

\* C17 happens: with concurrency 2 the call of the first item is still
\* pending while the second item is done and the third was admitted to its
\* slot.
C17_Witness ==
    /\ ConcurrentRun /\ concurrency = 2 /\ N >= 3
    /\ call[1].st = "pending"
    /\ task[2] = "done"
    /\ task[3] \in {"running", "done"}

\* items that hold a permit of the semaphore: inside `async with sem`, or
\* woken by release(), which took the permit for them
Holders == {i \in Items : task[i] \in {"running", "woken"}}

\* C18: with concurrency C > 1, the permits available and the items holding
\* one are C together; a call is in flight only for an item holding a permit,
\* an item that is done holds none whatever its status, and when the
\* scheduler is over all C permits are available.
C18_PermitsConserved ==
    ConcurrentRun =>
        /\ sem_value >= 0
        /\ sem_value + Cardinality(Holders) = concurrency
        /\ \A i \in Items :
              /\ call[i].st \in {"pending", "cancelling"} <=> task[i] = "running"
              /\ ret[i] # NoResult <=> task[i] = "done"
        /\ pc # "run_conc" =>
              /\ sem_value = concurrency
              /\ waiters = <<>>

\* C18 happens: a run of more items than permits is over with a timeout and
\* an error among its results and every permit back.
C18_Witness ==
    /\ ConcurrentRun /\ pc = "format"
    /\ N > concurrency
    /\ HasStatus("timeout") /\ HasStatus("error")
    /\ \E i \in Items : call[i].st = "raised" /\ ret[i].status = "error"
    /\ sem_value = concurrency


\* the scheduler of the benchmark command runs
Scheduling == command = "benchmark" /\ pc \in {"run_seq", "run_conc"}

\* C19: under FairSpec a run that has built its work items gets to the
\* formatting of the report with a result of every work item, whatever the
\* concurrency and whether or not the backend answers.
C19_RunTerminates ==
    Scheduling ~> (/\ pc = "format"
                   /\ Len(results) = N
                   /\ \A i \in Items : ret[i] # NoResult)

\* C19 happens: a run of three items under concurrency 2 in which no call
\* was answered is at the formatting of its report.
C19_Witness ==
    /\ pc = "format" /\ concurrency = 2 /\ N = 3
    /\ \A i \in Items : call[i].st = "cancelled"
    /\ Len(results) = N

\* what a step does to the call and the result of every work item
CallsStep(P(_, _)) ==
    \A i \in (DOMAIN call) \cap (DOMAIN call') :
        \A j \in (DOMAIN call) \cap (DOMAIN call') : P(i, j)

\* the step starts the cancellation of the call of item i
Cancels(i) == call[i].st = "pending" /\ call'[i].st = "cancelling"

\* C20: an item that has its result, of status timeout or any other, has no
\* call in flight and holds no permit, and neither its call nor its result
\* changes again; a call is cancelled only from pending, by a step that
\* leaves the call and the result of every other item as they are.
C20_TimeoutCancelsOwnCall ==
    /\ [](\A i \in Items :
            /\ ret[i] # NoResult =>
                  /\ call[i].st \in {"returned", "raised", "cancelled"}
                  /\ task[i] = "done"
            /\ ret[i].status = "timeout" =>
                  call[i].st \in {"raised", "cancelled"})
    /\ [][CallsStep(LAMBDA i, j :
              /\ ret[i] # NoResult => ret'[i] = ret[i] /\ call'[i] = call[i]
              /\ call'[i].st = "cancelling" =>
                    call[i].st \in {"pending", "cancelling"}
              /\ (Cancels(i) /\ j # i) =>
                    call'[j] = call[j] /\ ret'[j] = ret[j])]_vars

\* C20 happens: with concurrency 2 the first item has timed out and has its
\* result collected, while the call of the second item, issued before, is
\* still pending.
C20_Witness ==
    /\ concurrency = 2 /\ N >= 2
    /\ call[1].st = "cancelled" /\ ret[1].status = "timeout"
    /\ results = <<ret[1]>>
    /\ call[2].st = "pending"


\* the status that the behaviour of its own call gives a work item
\* (cli.py 166-176)
StatusOfCall(c) ==
    IF c.st = "returned" THEN "ok"
    ELSE IF c.st = "cancelled" THEN "timeout"
    ELSE IF c.exc.kind = "TimeoutError" THEN "timeout" ELSE "error"

\* the result r carries what the call c of its item gave: the response it
\* returned, or an error message
PayloadOfCall(r, c) ==
    IF c.st = "returned"
    THEN r.response \in Responses \cup WideResponses
    ELSE /\ DOMAIN r.response = {"error"}
         /\ r.response.error =
               IF StatusOfCall(c) = "timeout" THEN TimedOutMessage
               ELSE c.exc.desc

\* every way the call of item i can go is open to it
CallIsFree(i) ==
    /\ \A resp \in Responses : ENABLED GenerateReturns(i, resp)
    /\ \A exc \in Failures : ENABLED GenerateRaises(i, exc)
    /\ ENABLED TimeoutElapses(i)

\* the step changes the call or the result of item i
Touches(i) == call'[i] # call[i] \/ ret'[i] # ret[i]

\* C21: the status and the payload of a work item are those its own call
\* gives it (returned: ok with the response; raised: error, or timeout for a
\* TimeoutError; outlasted the timeout: timeout); while the call of an item is
\* pending it can return, raise or time out whatever the other items have
\* done; and a step that changes the call or the result of one item leaves
\* those of every other item as they are.
C21_FailureIsolation ==
    /\ [](\A i \in Items :
            /\ ret[i] # NoResult =>
                  /\ ret[i].status = StatusOfCall(call[i])
                  /\ PayloadOfCall(ret[i], call[i])
                  /\ ret[i].model = tasks_to_run[i].model
                  /\ ret[i].prompt = tasks_to_run[i].prompt
            /\ call[i].st = "pending" => CallIsFree(i))
    /\ [][CallsStep(LAMBDA i, j :
              (Touches(i) /\ j # i) => ~Touches(j))]_vars

\* C21 happens: with concurrency 2 the first item has timed out and the
\* second has failed, and the third, admitted after a failure, has returned
\* and is ok, its result collected last.
C21_Witness ==
    /\ concurrency = 2 /\ N = 3 /\ Len(results) = 3
    /\ call[1].st = "cancelled" /\ ret[1].status = "timeout"
    /\ call[2].st = "raised" /\ ret[2].status = "error"
    /\ call[3].st = "returned" /\ ret[3].status = "ok"
    /\ results[3] = ret[3]


\* the step ends the attempt of item i
Finishes(i) == task[i] # "done" /\ task'[i] = "done"

\* what a step does to the task of every work item
TasksStep(P(_)) == \A i \in (DOMAIN task) \cap (DOMAIN task') : P(i)

\* the report lists the results one by one, in their order
ReportInResultsOrder ==
    /\ output_str.kind = "json" =>
          /\ Len(output_str.results) = Len(results)
          /\ \A k \in 1..Len(results) :
                /\ output_str.results[k].model = results[k].model.name
                /\ output_str.results[k].prompt = results[k].prompt
                /\ output_str.results[k].status = results[k].status
    /\ output_str.kind = "text" =>
          /\ Len(output_str.blocks) = Len(results)
          /\ \A k \in 1..Len(results) :
                /\ output_str.blocks[k].model = results[k].model.name
                /\ output_str.blocks[k].status = results[k].status

\* C22: with concurrency > 1, a step that ends the attempt of an item puts
\* the item at the back of the queue of finished items and leaves the results
\* alone; the results change only by the append of the result of the item at
\* the front of that queue, which leaves the queue; so results are collected
\* in the order in which the attempts ended.  The report lists the results in
\* that order, none left out.
C22_CollectedAsCompleted ==
    /\ [][concurrency > 1 =>
            /\ TasksStep(LAMBDA i :
                  Finishes(i) => /\ done_queue' = Append(done_queue, i)
                                 /\ results' = results)
            /\ results' # results =>
                  /\ done_queue # <<>>
                  /\ results' = Append(results, ret[Head(done_queue)])
                  /\ done_queue' = Tail(done_queue)
            /\ done_queue' # done_queue =>
                  \/ results' # results
                  \/ \E i \in (DOMAIN task) \cap (DOMAIN task') : Finishes(i)
         ]_vars
    /\ [](ConcurrentRun => ReportInResultsOrder)

\* C22 happens: with concurrency 2 the second item ended first, with a
\* timeout, then the third, and the first item last; the written report
\* lists them in that order.
C22_Witness ==
    /\ concurrency = 2 /\ N = 3 /\ pc = "done"
    /\ results = <<ret[2], ret[3], ret[1]>>
    /\ ret[2].status = "timeout" /\ ret[3].status = "ok"
    /\ ret[1].status = "error"
    /\ written = output_str /\ output_str.kind = "json"
    /\ output_str.results[1].status = "timeout"
    /\ output_str.results[3].status = "error"


\* the call of item i has been issued
Issued(i) == call[i].st # "none"

\* C23: with concurrency > 1 the calls are issued in the order of the work
\* items: whenever the call of an item has been issued, so has the call of
\* every item before it; the items in the queue for a slot stand in the order
\* of the work items, behind every item that holds or has held a slot.
C23_IssuedInItemOrder ==
    (concurrency > 1 /\ pc = "run_conc") =>
        /\ \A i \in Items : \A j \in Items :
              (i < j /\ Issued(j)) => Issued(i)
        /\ \A k \in 1..Len(waiters) : \A l \in 1..Len(waiters) :
              k < l => waiters[k] < waiters[l]
        /\ \A k \in 1..Len(waiters) : \A i \in Items :
              task[i] \in {"running", "done"} => i < waiters[k]

\* C23 happens: with concurrency 2 the third and the fourth item queued for
\* a slot and were both woken, the second item having ended before the
\* first; the third has issued its call and the fourth has not yet.
C23_Witness ==
    /\ concurrency = 2 /\ N = 4 /\ pc = "run_conc"
    /\ done_queue = <<2, 1>>
    /\ task[3] = "running" /\ call[3].st = "pending"
    /\ task[4] = "woken" /\ ~Issued(4)


\* the step admits item i: its coroutine is past the gate and runs
Admits(i) == task[i] # "running" /\ task'[i] = "running"

\* C25: an item that is not admitted yet, waiting for a slot or not started,
\* has no call, no start, no result and no elapsed; the result of an item
\* whose call was cancelled by the timeout has an elapsed of at least the
\* timeout and that of an item whose call returned an elapsed below the
\* timeout, however long the item waited; the step that admits an item
\* takes its start at the time of that step and issues its call; the start
\* does not change afterwards; the timeout cancels the call of an item only
\* once the timeout has passed since its start; and the elapsed of a result
\* is the time since that start.
C25_ClockStartsAtAdmission ==
    /\ [](\A i \in Items :
            /\ task[i] \in {"created", "waiting", "woken"} =>
                  /\ call[i].st = "none" /\ ret[i] = NoResult
                  /\ start[i] = <<>> /\ elapsed[i] = <<>>
            /\ ret[i] # NoResult =>
                  /\ Issued(i) /\ start[i] # <<>> /\ elapsed[i] # <<>>
                  /\ call[i].st = "cancelled" => elapsed[i][1] >= timeout
                  /\ call[i].st = "returned" => elapsed[i][1] < timeout)
    /\ [][TasksStep(LAMBDA i :
              /\ Admits(i) => /\ start'[i] = <<now>>
                              /\ call[i].st = "none"
                              /\ call'[i].st = "pending"
              /\ start[i] # <<>> => start'[i] = start[i]
              /\ Finishes(i) => elapsed'[i] = <<now - start[i][1]>>
              /\ Cancels(i) => now - start[i][1] >= timeout)]_vars

\* C25 happens: with concurrency 2 the first two items timed out; the third
\* waited for a slot for as long as the timeout, then got its answer in
\* time: it is ok, with an elapsed below the timeout.
C25_Witness ==
    /\ concurrency = 2 /\ N = 3
    /\ ret[1].status = "timeout" /\ ret[2].status = "timeout"
    /\ ret[3].status = "ok"
    /\ start[3][1] >= timeout
    /\ elapsed[3] = <<1>>
    /\ elapsed[1][1] >= timeout


\* every work item has ended with status timeout or error
AllFailed ==
    /\ N >= 1
    /\ \A i \in Items : ret[i].status \in {"timeout", "error"}

ReportBuilt ==
    \/ output_str.kind = "json" /\ Len(output_str.results) = N
    \/ output_str.kind = "text" /\ Len(output_str.blocks) = N

ListingReturned ==
    /\ command = "benchmark"
    /\ pc \notin {"start", "list"}
    /\ caught.kind # "ConnectionError"

Requested == Range(model)
Listed == Range(model_names)

\* C8: when names are requested and none of them is listed, the run takes the
\* except clause with the ValueError of the selection, builds no work item,
\* issues no generate call, writes no report and exits with code 1.
C8_NoMatchIsFatal ==
    (ListingReturned /\ pc # "select" /\ model # <<>>
        /\ Requested \cap Listed = {}) =>
        /\ caught.kind = "ValueError"
        /\ pc \in {"except", "finally", "done"}
        /\ tasks_to_run = <<>> /\ call = <<>> /\ results = <<>>
        /\ written = NoOutput
        /\ pc = "done" => exit_code = 1

\* C8 happens: -m z against a listing of two models, the process has exited.
C8_Witness ==
    /\ command = "benchmark"
    /\ model = <<"z">>
    /\ Len(model_names) = MaxModels
    /\ pc = "done"
    /\ exit_code = 1

\* positions of the listing whose name is requested
KeptPositions == {k \in 1..Len(model_names) : model_names[k] \in Requested}

\* the listed names that are requested, in listing order
ListedRequested ==
    [i \in 1..Cardinality(KeptPositions) |->
        model_names[CHOOSE k \in KeptPositions :
                        Cardinality({j \in KeptPositions : j <= k}) = i]]

SelectedNames == [k \in 1..Len(selected_models) |-> selected_models[k].name]

\* names were requested, one of them is listed, and the selection is made
SelectionByName ==
    /\ ListingReturned /\ pc # "select"
    /\ model # <<>>
    /\ Requested \cap Listed # {}

\* C9 as stated: the selection the run works with is the listed models whose
\* name is requested, in listing order.
C9_SelectionInListingOrder ==
    (SelectionByName /\ pc \notin {"shuffle", "build"}) =>
        SelectedNames = ListedRequested

\* C9 amended: the selection is the listed models whose name is requested, in
\* listing order when it is made and in some order of the shuffle from then
\* on, which is the order of the work items; the warning names exactly the
\* requested names that are not listed, and the run is not aborted.
C9_SelectionShuffled ==
    SelectionByName =>
        /\ caught.kind # "ValueError"
        /\ pc = "shuffle" => SelectedNames = ListedRequested
        /\ IsPermutationOf(SelectedNames, ListedRequested)
        /\ Range(unknown) = Requested \ Listed
        /\ \A k \in Items :
              tasks_to_run[k].model.name
                  = SelectedNames[((k - 1) \div Len(prompts)) + 1]

\* C9 happens: -m a -m z against a listing of b and a; the run is over with
\* the one selected model benchmarked and z in the warning.
C9_Witness ==
    /\ SelectionByName
    /\ model = <<"a", "z">>
    /\ model_names = <<"b", "a">>
    /\ unknown = <<"z">>
    /\ SelectedNames = <<"a">>
    /\ pc = "done" /\ exit_code = 0 /\ Len(results) = 1

\* the backend call of list-models or generate raised
BackendCallRaised == caught.kind \notin {"none", "OSError"}

NoCallInFlight == InFlight = {} /\ pc \notin {"list", "generate"}

\* C10 as stated: close is invoked once on every path and after the last
\* call; list-models and generate exit 0 exactly when their backend call did
\* not raise.
C10_CloseOnceExitByBackend ==
    /\ pc = "done" => Len(closes) = 1
    /\ pc # "done" => closes = <<>>
    /\ closes # <<>> => NoCallInFlight
    /\ (pc = "done" /\ command \in {"list-models", "generate"}) =>
          (exit_code = 0 <=> ~BackendCallRaised)

\* C10 amended: every command ends, and only ends, by invoking close once,
\* when no backend call is in flight; the exit code is 0 when nothing raised
\* and 1 when the except clause handled an exception, whether close raised or
\* not; list-models and generate exit 0 exactly when neither their backend
\* call nor the printing of its result raised.
C10_CloseOnce ==
    /\ pc = "done" => Len(closes) = 1
    /\ pc # "done" => closes = <<>> /\ ENABLED Next
    /\ closes # <<>> => NoCallInFlight
    /\ pc = "done" =>
          /\ exit_code = (IF caught = NoExc THEN 0 ELSE 1)
          /\ caught = NoExc <=> written # NoOutput
    /\ (pc = "done" /\ command \in {"list-models", "generate"}) =>
          /\ BackendCallRaised => exit_code = 1
          /\ exit_code = 0 <=> written.kind \in {"models", "raw"}

\* C10 happens: a concurrent benchmark run failed to write its report, close
\* raised, and the process has exited with code 1.
C10_Witness ==
    /\ command = "benchmark" /\ concurrency > 1 /\ N >= 2
    /\ pc = "done"
    /\ caught.kind = "OSError"
    /\ closes = <<"raised">>
    /\ exit_code = 1

\* the names of the selection as it is made (cli.py 148-156), before the
\* shuffle
SelectionMade == IF model = <<>> THEN model_names ELSE ListedRequested

\* the prompts of the work items of the b-th model, in the order of the items
PromptsOfBlock(b) ==
    [j \in 1..Len(prompts) |->
        tasks_to_run[(b - 1) * Len(prompts) + j].prompt]

\* C24: the models of the run are the selection in one order of the shuffle,
\* each as often as selected, and the work items are that sequence of models
\* crossed with the prompts, model by model: the items of one model are
\* contiguous, their prompts are the resolved prompts in order, and the order
\* of the models is the same for every prompt.
C24_ShuffledModelsTimesPrompts ==
    ItemsBuilt =>
        /\ IsPermutationOf(SelectedNames, SelectionMade)
        /\ N = Len(selected_models) * Len(prompts)
        /\ \A b \in 1..Len(selected_models) :
              /\ PromptsOfBlock(b) = prompts
              /\ \A j \in 1..Len(prompts) :
                    tasks_to_run[(b - 1) * Len(prompts) + j].model
                        = selected_models[b]
        /\ \A i \in Items, j \in Items, k \in Items :
              (i < j /\ j < k
                  /\ tasks_to_run[i].model = tasks_to_run[k].model) =>
                  tasks_to_run[j].model = tasks_to_run[i].model

\* C24 happens: two models listed as a, b run in the order b, a with two
\* prompts each: four work items, first those of b.
C24_Witness ==
    /\ ItemsBuilt /\ model = <<>>
    /\ model_names = <<"a", "b">> /\ SelectedNames = <<"b", "a">>
    /\ prompts = <<"p", "q">>
    /\ N = 4
    /\ tasks_to_run[2] = [model |-> Model("b"), prompt |-> "q"]
    /\ tasks_to_run[3] = [model |-> Model("a"), prompt |-> "p"]


====
